---- MODULE Spec2Model ----
(***************************************************************************)
(* Model of src/api/latency.py: the dataset loader (load_latency_data),    *)
(* the percentile estimator (calculate_percentile) and the POST branch of  *)
(* handler, which filters the dataset to the requested regions, groups it  *)
(* by region and computes the per-region metrics.                          *)
(*                                                                         *)
(* Numbers.  Latencies, uptimes and the threshold are integers here.  The  *)
(* real-valued intermediate results (the fractional rank, the mean, the    *)
(* interpolated percentile) are exact rationals [num, den] in lowest       *)
(* terms; round(x, 2) yields a decimal with two places, held as its        *)
(* integer number of hundredths (150.0 is 15000).                          *)
(***************************************************************************)
EXTENDS Integers, Sequences, FiniteSets, TLC

VARIABLES
    files,            \* the two locations latency.json is looked up at
    opened,           \* the open() calls made so far, in order
    regions,          \* body["regions"]
    threshold_ms,     \* body["threshold_ms"]
    pc,               \* position of handler in its POST branch
    latency_data,     \* the loaded dataset
    filtered_data,    \* the records of the requested regions
    i,                \* records of filtered_data the grouping loop has finished with
    region_data,      \* dict region -> {latencies, uptimes, breaches}
    j,                \* items of region_data consumed by the metrics loop
    response_regions, \* dict region -> metrics
    response,         \* response.status_code and the returned body
    pct_pc,           \* position of a direct call of calculate_percentile
    data,             \* the caller's list passed to calculate_percentile
    percentile,       \* the percentile passed to calculate_percentile
    pct_result        \* the value calculate_percentile returned

vars == <<files, opened, regions, threshold_ms, pc, latency_data, filtered_data,
          i, region_data, j, response_regions, response,
          pct_pc, data, percentile, pct_result>>

handler_vars == <<files, opened, regions, threshold_ms, pc, latency_data,
                  filtered_data, i, region_data, j, response_regions, response>>

pct_vars == <<pct_pc, data, percentile, pct_result>>

----------------------------------------------------------------------------
(* Bounds of the model *)

MaxRecords == 2

MaxRegions == 2

MaxLoadRecords == 1

MaxLen == 3

MaxVal == 2

(* Input domains *)

DataRegions == {"us-east", "eu-west"}

RequestRegions == {"us-east", "eu-west", "ap-south"}

Latencies == {1, 2}

Uptimes == {98, 100}

Thresholds == {1, 2}

Percentiles == 0..100

SeqsUpTo(S, n) == UNION {[1..k -> S] : k \in 0..n}

Records == [region : DataRegions, latency_ms : Latencies, uptime_pct : Uptimes]

----------------------------------------------------------------------------
(* Exact arithmetic standing for Python's floats *)

RECURSIVE GCD(_, _)
GCD(a, b) == IF b = 0 THEN a ELSE GCD(b, a % b)

Rat(n, d) == LET g == GCD(n, d) IN [num |-> n \div g, den |-> d \div g]

is_integer(q) == q.num % q.den = 0

int(q) == q.num \div q.den

RECURSIVE sum(_)
sum(s) == IF s = <<>> THEN 0 ELSE Head(s) + sum(Tail(s))

mean(s) == Rat(sum(s), Len(s))

\* round(q, 2): the nearest multiple of 1/100, a tie going to the even one.
round2(q) ==
    LET scaled == 100 * q.num
        lo     == scaled \div q.den
        rem2   == 2 * (scaled % q.den)
    IN  IF rem2 < q.den THEN lo
        ELSE IF rem2 > q.den THEN lo + 1
        ELSE IF lo % 2 = 0 THEN lo ELSE lo + 1

----------------------------------------------------------------------------
(* calculate_percentile *)

RECURSIVE insert_sorted(_, _)
insert_sorted(x, s) ==
    IF s = <<>> THEN <<x>>
    ELSE IF x <= Head(s) THEN <<x>> \o s
    ELSE <<Head(s)>> \o insert_sorted(x, Tail(s))

\* sorted(data, reverse=True) in place of sorted(data)
RECURSIVE sorted_descending(_)
sorted_descending(s) ==
    IF s = <<>> THEN <<>>
    ELSE LET m == CHOOSE k \in DOMAIN s : \A l \in DOMAIN s : s[k] >= s[l]
         IN  <<s[m]>> \o sorted_descending(SubSeq(s, 1, m - 1) \o SubSeq(s, m + 1, Len(s)))

\* the samples used as they come, the sort left out
unsorted(s) == s

RECURSIVE sorted(_)
sorted(s) ==
    IF s = <<>> THEN <<>>
    ELSE insert_sorted(s[Len(s)], sorted(SubSeq(s, 1, Len(s) - 1)))

\* index = (percentile / 100) * (len(sorted_data) - 1)
rank_index(sorted_data, p) == Rat(p * (Len(sorted_data) - 1), 100)

\* the midpoint rule in place of the weighted interpolation
interpolate_midpoint(lower, upper, index) == Rat(lower + upper, 2)

\* lower + (upper - lower) * (index - int(index))
interpolate(lower, upper, index) ==
    Rat(lower * index.den + (upper - lower) * (index.num % index.den), index.den)

\* Python lists are 0-based: sorted_data[k] is the (k+1)-th element here.
calculate_percentile(d, p) ==
    IF d = <<>> THEN Rat(0, 1)
    ELSE LET sorted_data == sorted(d)
             index       == rank_index(sorted_data, p)
         IN  IF is_integer(index)
             THEN Rat(sorted_data[int(index) + 1], 1)
             ELSE interpolate(sorted_data[int(index) + 1],
                              sorted_data[int(index) + 2], index)

----------------------------------------------------------------------------
(* load_latency_data *)

MissingFile == [exists |-> FALSE, valid_json |-> FALSE, content |-> <<>>]

CorruptFile == [exists |-> TRUE, valid_json |-> FALSE, content |-> <<>>]

JsonFile(d) == [exists |-> TRUE, valid_json |-> TRUE, content |-> d]

\* with open(path) as f: return json.load(f)
open_and_load(file) ==
    IF ~file.exists THEN [exc |-> "FileNotFoundError", value |-> <<>>]
    ELSE IF ~file.valid_json THEN [exc |-> "JSONDecodeError", value |-> <<>>]
    ELSE [exc |-> "none", value |-> file.content]

\* an empty dataset returned where the code raises
load_latency_data_empty_on_failure(fs) ==
    LET first == open_and_load(fs.primary)
    IN  IF first.exc # "FileNotFoundError"
        THEN [exc |-> first.exc, value |-> first.value, opened |-> <<"primary">>]
        ELSE LET second == open_and_load(fs.fallback)
             IN  IF second.exc = "FileNotFoundError"
                 THEN [exc |-> "none", value |-> <<>>,
                       opened |-> <<"primary", "fallback">>]
                 ELSE [exc |-> second.exc, value |-> second.value,
                       opened |-> <<"primary", "fallback">>]

\* The outcome of the call and the open() calls it made.
load_latency_data(fs) ==
    LET first == open_and_load(fs.primary)
    IN  IF first.exc # "FileNotFoundError"
        THEN [exc |-> first.exc, value |-> first.value, opened |-> <<"primary">>]
        ELSE LET second == open_and_load(fs.fallback)
             IN  IF second.exc = "FileNotFoundError"
                 THEN [exc |-> "Exception: Latency data file not found",
                       value |-> <<>>, opened |-> <<"primary", "fallback">>]
                 ELSE [exc |-> second.exc, value |-> second.value,
                       opened |-> <<"primary", "fallback">>]

----------------------------------------------------------------------------
(* handler, POST branch, from "Load the latency data" on *)

EmptyDict == [order |-> <<>>, items |-> <<>>]

NoResponse == [status_code |-> 0, body |-> [pending |-> TRUE]]

InDict(dict, k) == k \in DOMAIN dict.items

\* dict[k] = v, a new key going last in the insertion order
DictSet(dict, k, v) ==
    IF InDict(dict, k)
    THEN [dict EXCEPT !.items = [@ EXCEPT ![k] = v]]
    ELSE [order |-> Append(dict.order, k), items |-> (k :> v) @@ dict.items]

\* record["region"] == regions[0] in place of the membership test
in_list_first(x, list) == list # <<>> /\ list[1] = x

\* record["region"] in regions
in_list(x, list) == \E m \in DOMAIN list : list[m] = x

\* the filter left out
filter_regions_unfiltered(dataset, regs) == dataset

\* a record kept once per occurrence of its region in the request
RECURSIVE filter_regions_per_occurrence(_, _)
filter_regions_per_occurrence(dataset, regs) ==
    IF dataset = <<>> THEN <<>>
    ELSE LET rec == Head(dataset)
             n   == Cardinality({m \in DOMAIN regs : regs[m] = rec.region})
         IN  [k \in 1..n |-> rec] \o filter_regions_per_occurrence(Tail(dataset), regs)

filter_regions(dataset, regs) ==
    SelectSeq(dataset, LAMBDA record : in_list(record.region, regs))

\* region = record["region"]; a first record of a region creates its entry
group_enter(dict, record) ==
    IF InDict(dict, record.region) THEN dict
    ELSE DictSet(dict, record.region,
                 [latencies |-> <<>>, uptimes |-> <<>>, breaches |-> 0])

\* one entry object shared by all regions: every group collects every record
group_append_shared_entry(dict, record) ==
    [dict EXCEPT !.items =
        [k \in DOMAIN dict.items |->
            [dict.items[k] EXCEPT !.latencies = Append(@, record.latency_ms),
                                  !.uptimes = Append(@, record.uptime_pct)]]]

\* the two appends
group_append(dict, record) ==
    LET old == dict.items[record.region]
    IN  DictSet(dict, record.region,
                [old EXCEPT !.latencies = Append(@, record.latency_ms),
                            !.uptimes = Append(@, record.uptime_pct)])

\* the breach test written >= in place of >
group_breach_at_or_above(dict, record, threshold) ==
    IF record.latency_ms >= threshold
    THEN [dict EXCEPT !.items[record.region].breaches = @ + 1]
    ELSE dict

\* the latency added to the counter in place of 1
group_breach_adds_latency(dict, record, threshold) ==
    IF record.latency_ms > threshold
    THEN [dict EXCEPT !.items[record.region].breaches = @ + record.latency_ms]
    ELSE dict

\* Count breaches (latency above threshold)
group_breach(dict, record, threshold) ==
    IF record.latency_ms > threshold
    THEN LET old == dict.items[record.region]
         IN  DictSet(dict, record.region, [old EXCEPT !.breaches = @ + 1])
    ELSE dict

\* One iteration of the grouping loop.
group_record(dict, record, threshold) ==
    group_breach(group_append(group_enter(dict, record), record), record, threshold)

\* The metrics of one region.
region_metrics(d) ==
    [avg_latency |-> round2(mean(d.latencies)),
     p95_latency |-> round2(calculate_percentile(d.latencies, 95)),
     avg_uptime  |-> round2(mean(d.uptimes)),
     breaches    |-> d.breaches]

\* The grouping loop run to its end over recs, from dict.
RECURSIVE group_all(_, _, _)
group_all(dict, recs, threshold) ==
    IF recs = <<>> THEN dict
    ELSE group_all(group_record(dict, Head(recs), threshold), Tail(recs), threshold)

\* The metrics loop run to its end over the keys in order, from out.
RECURSIVE metrics_all(_, _, _)
metrics_all(out, order, dict) ==
    IF order = <<>> THEN out
    ELSE LET d == dict.items[Head(order)]
         IN  metrics_all(IF d.latencies = <<>> THEN out
                         ELSE DictSet(out, Head(order), region_metrics(d)),
                         Tail(order), dict)

\* What handler returns for a loaded dataset: the steps from the filter on.
aggregate(dataset, regs, threshold) ==
    LET filtered == filter_regions(dataset, regs)
    IN  IF filtered = <<>>
        THEN [status_code |-> 400,
              body |-> [error |-> <<"No data found for regions: ", regs>>]]
        ELSE LET grouped == group_all(EmptyDict, filtered, threshold)
             IN  [status_code |-> 200,
                  body |-> [regions |-> metrics_all(EmptyDict, grouped.order, grouped)]]

Load ==
    /\ pc = "load"
    /\ LET got == load_latency_data(files)
       IN  /\ opened' = got.opened
           /\ IF got.exc = "none"
              THEN /\ latency_data' = got.value
                   /\ pc' = "filter"
                   /\ UNCHANGED response
              ELSE /\ response' = [status_code |-> 500,
                                   body |-> [error |-> <<"Failed to load latency data: ",
                                                         got.exc>>]]
                   /\ pc' = "done"
                   /\ UNCHANGED latency_data
    /\ UNCHANGED <<files, regions, threshold_ms, filtered_data, i, region_data, j,
                   response_regions>>
    /\ UNCHANGED pct_vars

Filter ==
    /\ pc = "filter"
    /\ filtered_data' = filter_regions(latency_data, regions)
    /\ IF filtered_data' = <<>>
       THEN /\ response' = [status_code |-> 400,
                            body |-> [error |-> <<"No data found for regions: ",
                                                  regions>>]]
            /\ pc' = "done"
       ELSE /\ pc' = "group"
            /\ UNCHANGED response
    /\ UNCHANGED <<files, opened, regions, threshold_ms, latency_data, i, region_data,
                   j, response_regions>>
    /\ UNCHANGED pct_vars

GroupEnter ==
    /\ pc = "group"
    /\ i < Len(filtered_data)
    /\ region_data' = group_enter(region_data, filtered_data[i + 1])
    /\ pc' = "group_append"
    /\ UNCHANGED <<files, opened, regions, threshold_ms, latency_data, filtered_data,
                   i, j, response_regions, response>>
    /\ UNCHANGED pct_vars

GroupAppend ==
    /\ pc = "group_append"
    /\ region_data' = group_append(region_data, filtered_data[i + 1])
    /\ pc' = "group_breach"
    /\ UNCHANGED <<files, opened, regions, threshold_ms, latency_data, filtered_data,
                   i, j, response_regions, response>>
    /\ UNCHANGED pct_vars

GroupBreach ==
    /\ pc = "group_breach"
    /\ region_data' = group_breach(region_data, filtered_data[i + 1], threshold_ms)
    /\ i' = i + 1
    /\ pc' = "group"
    /\ UNCHANGED <<files, opened, regions, threshold_ms, latency_data, filtered_data,
                   j, response_regions, response>>
    /\ UNCHANGED pct_vars

GroupDone ==
    /\ pc = "group"
    /\ i = Len(filtered_data)
    /\ pc' = "metrics"
    /\ UNCHANGED <<files, opened, regions, threshold_ms, latency_data, filtered_data,
                   i, region_data, j, response_regions, response>>
    /\ UNCHANGED pct_vars

ComputeMetrics ==
    /\ pc = "metrics"
    /\ j < Len(region_data.order)
    /\ LET region == region_data.order[j + 1]
           d      == region_data.items[region]
       IN  response_regions' =
               IF d.latencies = <<>> THEN response_regions
               ELSE DictSet(response_regions, region, region_metrics(d))
    /\ j' = j + 1
    /\ UNCHANGED <<files, opened, regions, threshold_ms, pc, latency_data,
                   filtered_data, i, region_data, response>>
    /\ UNCHANGED pct_vars

Return ==
    /\ pc = "metrics"
    /\ j = Len(region_data.order)
    /\ response' = [status_code |-> 200, body |-> [regions |-> response_regions]]
    /\ pc' = "done"
    /\ UNCHANGED <<files, opened, regions, threshold_ms, latency_data, filtered_data,
                   i, region_data, j, response_regions>>
    /\ UNCHANGED pct_vars

\* A direct call of calculate_percentile; sorted() copies, the argument stays.
PercentileCall ==
    /\ pct_pc = "call"
    /\ pct_result' = calculate_percentile(data, percentile)
    /\ data' = data
    /\ pct_pc' = "returned"
    /\ UNCHANGED percentile
    /\ UNCHANGED handler_vars

----------------------------------------------------------------------------
(* Specifications *)

HandlerStart ==
    /\ opened = <<>>
    /\ latency_data = <<>>
    /\ filtered_data = <<>>
    /\ i = 0
    /\ region_data = EmptyDict
    /\ j = 0
    /\ response_regions = EmptyDict
    /\ response = NoResponse

PercentileIdle ==
    /\ pct_pc = "idle"
    /\ data = <<>>
    /\ percentile = 0
    /\ pct_result = Rat(0, 1)

\* One POST request against a dataset found at the primary location.
Init ==
    /\ \E d \in SeqsUpTo(Records, MaxRecords) :
           files = [primary |-> JsonFile(d), fallback |-> MissingFile]
    /\ regions \in SeqsUpTo(RequestRegions, MaxRegions)
    /\ threshold_ms \in Thresholds
    /\ pc = "load"
    /\ HandlerStart
    /\ PercentileIdle

Next ==
    \/ Load
    \/ Filter
    \/ GroupEnter
    \/ GroupAppend
    \/ GroupBreach
    \/ GroupDone
    \/ ComputeMetrics
    \/ Return

Spec == Init /\ [][Next]_vars

\* One POST request against every state of the two locations.
FileStates == {MissingFile, CorruptFile} \cup {JsonFile(d) : d \in SeqsUpTo(Records, MaxLoadRecords)}

InitLoad ==
    /\ files \in [primary : FileStates, fallback : FileStates]
    /\ regions \in {<<"us-east">>, <<"ap-south">>}
    /\ threshold_ms = 1
    /\ pc = "load"
    /\ HandlerStart
    /\ PercentileIdle

SpecLoad == InitLoad /\ [][Next]_vars

\* One direct call of calculate_percentile.
InitPercentile ==
    /\ pct_pc = "call"
    /\ data \in SeqsUpTo(0..MaxVal, MaxLen)
    /\ percentile \in Percentiles
    /\ pct_result = Rat(0, 1)
    /\ files = [primary |-> MissingFile, fallback |-> MissingFile]
    /\ regions = <<>>
    /\ threshold_ms = 0
    /\ HandlerStart
    /\ pc = "idle"

NextPercentile == PercentileCall

SpecPercentile == InitPercentile /\ [][NextPercentile]_vars

----------------------------------------------------------------------------
(* Vocabulary of the properties, stated over the dataset and the request   *)
(* rather than over the handler's intermediate values                      *)

Range(s) == {s[k] : k \in DOMAIN s}

Loaded == pc \in {"filter", "group", "group_append", "group_breach", "metrics"} \/ (pc = "done" /\ response.status_code # 500)

Succeeded == pc = "done" /\ response.status_code = 200

NoMatchingData ==
    /\ response.status_code = 400
    /\ DOMAIN response.body = {"error"}
    /\ response.body.error[1] = "No data found for regions: "

DataUnavailable ==
    /\ response.status_code = 500
    /\ DOMAIN response.body = {"error"}
    /\ response.body.error[1] = "Failed to load latency data: "

\* The positions of the dataset's records of region r.
RecordsOf(r) == {k \in DOMAIN latency_data : latency_data[k].region = r}

\* The requested regions that have at least one record in the dataset.
MatchedRegions == {r \in Range(regions) : RecordsOf(r) # {}}

\* The records of region r, in dataset order.
RegionRecords(r) == SelectSeq(latency_data, LAMBDA rec : rec.region = r)

LatenciesOf(r) == [k \in DOMAIN RegionRecords(r) |-> RegionRecords(r)[k].latency_ms]

UptimesOf(r) == [k \in DOMAIN RegionRecords(r) |-> RegionRecords(r)[k].uptime_pct]

BreachesOf(r) == Cardinality({k \in RecordsOf(r) : latency_data[k].latency_ms > threshold_ms})

ResultKeys == DOMAIN response.body.regions.items

----------------------------------------------------------------------------
\* C1: whenever the dataset loads and at least one record matches the
\* requested regions, the query succeeds and the region keys of the result
\* are exactly the requested regions that have a record in the dataset: a
\* requested region without records is absent, an unrequested region is absent.
C1_ResultKeys ==
    (pc = "done" /\ Loaded /\ MatchedRegions # {}) =>
        /\ Succeeded
        /\ ResultKeys = MatchedRegions
        /\ Range(response.body.regions.order) = MatchedRegions
        /\ Len(response.body.regions.order) = Cardinality(MatchedRegions)

C1_Witness ==
    /\ Succeeded
    /\ \E r \in Range(regions) : RecordsOf(r) = {} /\ r \notin ResultKeys
    /\ \E k \in DOMAIN latency_data :
           latency_data[k].region \notin Range(regions) \cup ResultKeys

\* C2: when the dataset loads and no record's region is requested, the
\* response is the NoMatchingData error naming the requested regions and has
\* no regions mapping; the error is returned in no other case.
C2_NoMatchingData ==
    /\ (pc = "done" /\ Loaded /\ MatchedRegions = {}) =>
           /\ NoMatchingData
           /\ response.body.error[2] = regions
           /\ "regions" \notin DOMAIN response.body
    /\ response.status_code = 400 =>
           /\ pc = "done"
           /\ \A k \in DOMAIN latency_data : \A m \in DOMAIN regions :
                  latency_data[k].region # regions[m]

C2_Witness ==
    /\ pc = "done"
    /\ NoMatchingData
    /\ latency_data # <<>>
    /\ regions # <<>>

\* C3: for every region of the result, breaches is the number of the
\* region's records with latency_ms strictly above threshold_ms; a record
\* at the threshold is not counted, a threshold above every latency gives
\* 0 and a threshold below every latency gives the region's record count.
C3_Breaches ==
    Succeeded =>
        \A r \in ResultKeys :
            LET b == response.body.regions.items[r].breaches
            IN  /\ b = BreachesOf(r)
                /\ (\A k \in RecordsOf(r) : latency_data[k].latency_ms < threshold_ms)
                       => b = 0
                /\ (\A k \in RecordsOf(r) : latency_data[k].latency_ms > threshold_ms)
                       => b = Cardinality(RecordsOf(r))

C3_Witness ==
    /\ Succeeded
    /\ \E r \in ResultKeys :
           /\ \E k \in RecordsOf(r) : latency_data[k].latency_ms = threshold_ms
           /\ \E k \in RecordsOf(r) : latency_data[k].latency_ms > threshold_ms
           /\ response.body.regions.items[r].breaches = 1

\* The records the grouping loop has taken from filtered_data so far, the
\* one of the iteration in progress included.
Taken == IF pc \in {"group_append", "group_breach"} THEN i + 1 ELSE i

\* C4: in every state of the grouping loop and from then on, each key of
\* region_data has at least one contributing record (a record of that region
\* taken by the loop) and a breaches counter between 0 and the number of
\* latencies collected for the region; between iterations and in the final
\* result every key has at least one collected latency.
C4_GroupInvariant ==
    /\ \A r \in DOMAIN region_data.items :
           LET g == region_data.items[r]
           IN  /\ \E k \in 1..Taken : filtered_data[k].region = r
               /\ 0 <= g.breaches
               /\ g.breaches <= Len(g.latencies)
               /\ pc \in {"group", "metrics", "done"} => Len(g.latencies) >= 1
    /\ \A r \in DOMAIN response_regions.items :
           /\ r \in DOMAIN region_data.items
           /\ RecordsOf(r) # {}
           /\ response_regions.items[r].breaches <= Len(region_data.items[r].latencies)
           /\ response_regions.items[r].breaches <= Cardinality(RecordsOf(r))

\* The second iteration in progress, a region already counted with a breach
\* and a new region whose entry was just created.
C4_Witness ==
    /\ pc = "group_append"
    /\ i = 1
    /\ \E r \in DOMAIN region_data.items :
           /\ region_data.items[r].breaches = 1
           /\ Len(region_data.items[r].latencies) = 1
    /\ \E r \in DOMAIN region_data.items : region_data.items[r].latencies = <<>>

\* C10: once the grouping loop has finished, the latencies and uptimes of
\* each group are the latency_ms and uptime_pct of the dataset's records of
\* that region, in dataset order and of equal length, the groups being the
\* requested regions with records; each region's metrics are computed from
\* these values alone.
C10_Grouping ==
    /\ pc \in {"metrics", "done"} /\ Loaded /\ MatchedRegions # {} =>
           /\ DOMAIN region_data.items = MatchedRegions
           /\ \A r \in MatchedRegions :
                  LET g == region_data.items[r]
                  IN  /\ g.latencies = LatenciesOf(r)
                      /\ g.uptimes = UptimesOf(r)
                      /\ Len(g.latencies) = Len(g.uptimes)
    /\ Succeeded =>
           \A r \in ResultKeys :
               response.body.regions.items[r] =
                   [avg_latency |-> round2(mean(LatenciesOf(r))),
                    p95_latency |-> round2(calculate_percentile(LatenciesOf(r), 95)),
                    avg_uptime  |-> round2(mean(UptimesOf(r))),
                    breaches    |-> BreachesOf(r)]

C10_Witness ==
    /\ Succeeded
    /\ Len(latency_data) = 2
    /\ latency_data[1].region = "us-east"
    /\ latency_data[2].region = "eu-west"
    /\ latency_data[1].latency_ms # latency_data[2].latency_ms
    /\ latency_data[1].uptime_pct # latency_data[2].uptime_pct
    /\ ResultKeys = {"us-east", "eu-west"}

\* The regions lists with the same set of elements as the requested one.
SameSetLists == {l \in SeqsUpTo(RequestRegions, MaxRegions + 1) : Range(l) = Range(regions)}

\* The response handler computed step by step is the one aggregate gives.
StepsAgreeWithAggregate ==
    (pc = "done" /\ Loaded) => response = aggregate(latency_data, regions, threshold_ms)

\* C9 as stated: for a fixed dataset and threshold every regions list with
\* the same set of elements as the requested one gets the same response,
\* result mapping or error alike.
C9_SameResponse ==
    (pc = "done" /\ Loaded) =>
        \A l \in SameSetLists : aggregate(latency_data, l, threshold_ms) = response

\* C9, amended: every regions list with the same set of elements gets the
\* same result mapping, or the error of the same kind (NoMatchingData, status
\* 400) whose message names the list as it was given; a duplicated region
\* name leaves the region's metrics and breaches unchanged.
C9_SameOutcome ==
    (pc = "done" /\ Loaded) =>
        \A l \in SameSetLists :
            LET other == aggregate(latency_data, l, threshold_ms)
            IN  /\ other.status_code = response.status_code
                /\ DOMAIN other.body = DOMAIN response.body
                /\ response.status_code = 200 => other.body = response.body
                /\ response.status_code = 400 =>
                       /\ other.body.error[1] = response.body.error[1]
                       /\ other.body.error[2] = l
                       /\ response.body.error[2] = regions

C9_Witness ==
    /\ Succeeded
    /\ regions = <<"us-east", "us-east">>
    /\ Len(latency_data) = 2
    /\ \A k \in DOMAIN latency_data : latency_data[k].region = "us-east"
    /\ latency_data[1].latency_ms > threshold_ms
    /\ response.body.regions.items["us-east"].breaches = 1

----------------------------------------------------------------------------
(* The loader, under SpecLoad *)

Loads(file) == file.exists /\ file.valid_json

AfterLoad == pc # "load"

\* C8 as stated: the primary is attempted first, any failure of it (missing
\* or unparseable) is followed by an attempt at the fallback, the load fails
\* with DataUnavailable exactly when both attempts fail, and otherwise the
\* dataset is the content of the first location that loads.
C8_AnyFailureFallsBack ==
    AfterLoad =>
        /\ opened # <<>> /\ opened[1] = "primary"
        /\ ~Loads(files.primary) => opened = <<"primary", "fallback">>
        /\ DataUnavailable <=> (~Loads(files.primary) /\ ~Loads(files.fallback))
        /\ Loaded => latency_data = IF Loads(files.primary) THEN files.primary.content
                                    ELSE files.fallback.content

\* C8, amended: the primary is attempted first; the fallback is attempted
\* exactly when the primary is not found; the load fails with DataUnavailable
\* exactly when the primary is found but unparseable, or the primary is not
\* found and the fallback is not found or unparseable; a failed load ends the
\* request with that error and no dataset, a successful one yields the
\* content of the location that was read.
C8_Loader ==
    AfterLoad =>
        /\ opened # <<>> /\ opened[1] = "primary"
        /\ Len(opened) <= 2
        /\ (opened = <<"primary", "fallback">>) <=> ~files.primary.exists
        /\ (pc = "done" /\ DataUnavailable) <=>
               \/ files.primary.exists /\ ~files.primary.valid_json
               \/ ~files.primary.exists /\ ~Loads(files.fallback)
        /\ Loaded <=> ~DataUnavailable
        /\ DataUnavailable => latency_data = <<>> /\ filtered_data = <<>>
        /\ Loaded => latency_data = IF Loads(files.primary) THEN files.primary.content
                                    ELSE files.fallback.content

C8_Witness ==
    /\ Succeeded
    /\ ~files.primary.exists
    /\ Loads(files.fallback)
    /\ opened = <<"primary", "fallback">>
    /\ latency_data = files.fallback.content
    /\ latency_data # <<>>

----------------------------------------------------------------------------
(* calculate_percentile, under SpecPercentile *)

Returned == pct_pc = "returned"

Count(s, v) == Cardinality({k \in DOMAIN s : s[k] = v})

IsPermutation(t, s) ==
    /\ Len(t) = Len(s)
    /\ \A v \in Range(s) \cup Range(t) : Count(t, v) = Count(s, v)

Permutations_(s) == {t \in [1..Len(s) -> Range(s)] : IsPermutation(t, s)}

\* The samples in ascending order, as the permutation that is ascending.
Ascending(s) ==
    CHOOSE t \in Permutations_(s) : \A k \in 1..(Len(t) - 1) : t[k] <= t[k + 1]

\* C5: for non-empty samples of length n and p in [0,100], with
\* r = (p/100)*(n-1) over the ascending samples (0-based), the value is
\* sorted[r] when r is an integer and otherwise
\* sorted[floor(r)] + (sorted[floor(r)+1] - sorted[floor(r)]) * (r - floor(r)),
\* the index floor(r)+1 lying within the samples.
C5_LinearInterpolation ==
    (Returned /\ data # <<>>) =>
        LET n     == Len(data)
            asc   == Ascending(data)
            r100  == percentile * (n - 1)
            floor == r100 \div 100
            frac  == r100 % 100
        IN  IF frac = 0
            THEN floor + 1 <= n /\ pct_result = Rat(asc[floor + 1], 1)
            ELSE /\ floor + 2 <= n
                 /\ pct_result =
                        Rat(100 * asc[floor + 1] + (asc[floor + 2] - asc[floor + 1]) * frac, 100)

C5_Witness ==
    /\ Returned
    /\ data = <<2, 1>>
    /\ percentile = 95
    /\ pct_result = Rat(195, 100)

\* C6: for non-empty samples, percentile 0 gives the minimum of the samples
\* and percentile 100 the maximum.
C6_MinMax ==
    (Returned /\ data # <<>>) =>
        /\ percentile = 0 =>
               /\ pct_result.den = 1
               /\ pct_result.num \in Range(data)
               /\ \A v \in Range(data) : pct_result.num <= v
        /\ percentile = 100 =>
               /\ pct_result.den = 1
               /\ pct_result.num \in Range(data)
               /\ \A v \in Range(data) : pct_result.num >= v

C6_Witness ==
    /\ Returned
    /\ data = <<1, 0, 2>>
    /\ percentile = 100
    /\ pct_result = Rat(2, 1)

\* C7: the value returned for the samples is the value returned for every
\* permutation of them at the same percentile, and the call leaves the
\* caller's list as it was.
C7_ReorderInvariant ==
    /\ [](Returned =>
            \A t \in Permutations_(data) :
                calculate_percentile(t, percentile) = pct_result)
    /\ [][data' = data]_vars

C7_Witness ==
    /\ Returned
    /\ data = <<2, 0, 1>>
    /\ percentile = 25
    /\ pct_result = Rat(1, 2)

====
